---- MODULE Spec2Model ----
(***************************************************************************)
(* Fact-Checking-Web-App: the claim verification and verdict pipeline.     *)
(*                                                                         *)
(*   claim_verifier.py    EnhancedClaimVerifier (queries, search, LLM      *)
(*                        adjudication, batch loop, statistical report)    *)
(*   search_providers.py  TavilySearch.search                              *)
(*   report_generator.py  FactCheckReporter (verdict mapping, summary)     *)
(*   app.py               process_pdf, session state                       *)
(*                                                                         *)
(* Representation.  A confidence is an integer number of hundredths        *)
(* (0.7 is 70); NonNumeric stands for a JSON value that is not a number.   *)
(* A claim's context is the word list context.split() yields.  A URL is    *)
(* an integer identifier.  Strings the code only copies (analysis text,    *)
(* exception messages) are representative literals.                        *)
(*                                                                         *)
(* Specifications, one per component, over one set of variables (the       *)
(* variables of the other components stay at their idle values):           *)
(*   SpecVerdict   FactCheckReporter._map_to_verdict on drawn inputs       *)
(*   SpecQuery     EnhancedClaimVerifier.generate_search_queries           *)
(*   SpecSearch    EnhancedClaimVerifier.search_for_claim                  *)
(*   SpecLLM       EnhancedClaimVerifier.verify_with_llm                   *)
(*   SpecParse     verify_with_llm on response texts (regex, json.loads)   *)
(*   SpecReporter  process_verification_results, generate_executive_summary*)
(*   SpecSummary   generate_executive_summary called again as time passes  *)
(*   SpecQuality   generate_executive_summary on files of up to ten claims *)
(*   SpecOutput    the reporter's output operations                        *)
(*   Spec          verify_all_claims, called any number of times           *)
(*   SpecReport    verify_all_claims and generate_report                   *)
(*   SpecPipeline  verify_all_claims, export_results, then the reporter    *)
(*   SpecApp       app.process_pdf                                         *)
(*   SpecSession   app.main: the session over runs of process_pdf          *)
(***************************************************************************)
EXTENDS Integers, Sequences, FiniteSets, TLC

VARIABLES
    mv,             \* _map_to_verdict: the call's inputs and its return value
    q_claim,        \* generate_search_queries / search_for_claim: the claim passed
    queries,        \* generate_search_queries: the returned list
    search_out,     \* search_for_claim: all_results, unique_results[:5], used_queries,
                    \* the queries it issued and what the provider did with each
    llm,            \* verify_with_llm: the call's inputs, the prompts it sent to
                    \* the model, its return value
    detailed_results,   \* FactCheckReporter.verification_data['detailed_results']
    report_claims,      \* FactCheckReporter.report_claims
    summary,            \* what generate_executive_summary returned last
    prev_summary,       \* what the call of generate_executive_summary before
                        \* the last returned
    reporter_calls,     \* calls of process_verification_results so far
    output,             \* the reporter's last output operation and how it ended
    clock,              \* datetime.now(), in seconds
    report,             \* what the last call of generate_report() returned
    claims,                 \* the claims list passed to verify_all_claims
    verification_results,   \* EnhancedClaimVerifier.verification_results
    pc,                     \* "idle", or "running": inside verify_all_claims
    claims_to_verify,       \* verify_all_claims: claims[:max_claims] or claims
    idx,                    \* verify_all_claims: claims of the batch gone through
    attempts,               \* the verifier's log: per claim gone through, in any
                            \* call, its index in the batch and what its try block did
    calls,                  \* calls of verify_all_claims so far
    delays,                 \* time.sleep(delay) calls of the current batch
    app_pc,                 \* app.py: where process_pdf stands, or the page shown
    app_total,              \* process_pdf: total
    app_idx,                \* process_pdf: passes of its verification loop done
    session                 \* st.session_state

searchVars == <<q_claim, queries, search_out, llm>>
reporterVars == <<detailed_results, report_claims, summary, prev_summary,
                 reporter_calls, output>>

verifierVars == <<claims, verification_results, pc, claims_to_verify, idx,
                  attempts, calls, delays>>
appVars == <<app_pc, app_total, app_idx, session>>

vars == <<mv, q_claim, queries, search_out, llm,
          detailed_results, report_claims, summary, prev_summary, reporter_calls,
          output,
          clock, report,
          claims, verification_results, pc, claims_to_verify, idx,
          attempts, calls, delays,
          app_pc, app_total, app_idx, session>>

(***************************************************************************)
(* Bounds of the model.                                                    *)
(***************************************************************************)
MaxConfidence == 100    \* confidences drawn for _map_to_verdict: 0.00 .. 1.00
MaxUrls == 6            \* distinct URLs the provider may return
MaxResults == 3         \* entries of detailed_results in the reporter's input file
MaxProcessCalls == 2    \* calls of process_verification_results on one reporter
MaxClaims == 3          \* claims in the list passed to verify_all_claims
MaxCalls == 2           \* calls of verify_all_claims on one verifier
MaxVerifications == 3   \* entries of verification_results and claims of the next batch
MaxAppClaims == 2       \* claims extracted from the uploaded PDF; the slider's maximum
MaxClock == 2           \* seconds that pass while summaries are generated

(***************************************************************************)
(* Helpers.                                                                *)
(***************************************************************************)
Min(a, b) == IF a <= b THEN a ELSE b

\* Python's s[:n] for n >= 0
Take(s, n) == SubSeq(s, 1, Min(n, Len(s)))

NotCalled == "<not called>"
\* generate_report() not called yet
NoReport == [kind |-> "none"]

NonNumeric == 0 - 1
IsNumber(c) == c >= 0

RECURSIVE JoinWords(_)
\* ' '.join(words)
JoinWords(words) ==
    IF words = <<>> THEN ""
    ELSE IF Len(words) = 1 THEN words[1]
    ELSE words[1] \o " " \o JoinWords(Tail(words))

(***************************************************************************)
(* report_generator.py: FactCheckReporter._map_to_verdict                  *)
(***************************************************************************)
ContradictedThreshold == 70

Verdicts == {"verified", "inaccurate", "false"}

KnownStatuses == {"verified", "contradicted", "partial", "unverifiable"}

\* the four statuses, and a string outside them
StatusStrings == KnownStatuses \cup {"error"}

\* the contradicted branches exchanged
MapToVerdict_Swapped(verification_status, confidence) ==
    IF verification_status = "verified" THEN "verified"
    ELSE IF verification_status = "contradicted" THEN
        IF ~IsNumber(confidence) THEN "TypeError"
        ELSE IF confidence >= ContradictedThreshold THEN "false"
        ELSE "inaccurate"
    ELSE IF verification_status = "partial" THEN "inaccurate"
    ELSE "false"

\* an unverifiable status graded by confidence
MapToVerdict_Graded(verification_status, confidence) ==
    IF verification_status = "verified" THEN "verified"
    ELSE IF verification_status = "contradicted" THEN
        IF ~IsNumber(confidence) THEN "TypeError"
        ELSE IF confidence >= ContradictedThreshold THEN "inaccurate"
        ELSE "false"
    ELSE IF verification_status = "partial" THEN "inaccurate"
    ELSE IF IsNumber(confidence) /\ confidence >= 30 THEN "inaccurate"
    ELSE "false"

\* a partial status with full confidence taken as verified
MapToVerdict_PartialByConfidence(verification_status, confidence) ==
    IF verification_status = "verified" THEN "verified"
    ELSE IF verification_status = "contradicted" THEN
        IF ~IsNumber(confidence) THEN "TypeError"
        ELSE IF confidence >= ContradictedThreshold THEN "inaccurate"
        ELSE "false"
    ELSE IF verification_status = "partial" THEN
        IF IsNumber(confidence) /\ confidence >= 100 THEN "verified" ELSE "inaccurate"
    ELSE "false"

\* a status outside the four passed through
MapToVerdict_PassThrough(verification_status, confidence) ==
    IF verification_status = "verified" THEN "verified"
    ELSE IF verification_status = "contradicted" THEN
        IF ~IsNumber(confidence) THEN "TypeError"
        ELSE IF confidence >= ContradictedThreshold THEN "inaccurate"
        ELSE "false"
    ELSE IF verification_status = "partial" THEN "inaccurate"
    ELSE IF verification_status = "unverifiable" THEN "false"
    ELSE verification_status

\* `confidence >= 0.7` on a value that is not a number raises TypeError
MapToVerdict(verification_status, confidence) ==
    IF verification_status = "verified" THEN "verified"
    ELSE IF verification_status = "contradicted" THEN
        IF ~IsNumber(confidence) THEN "TypeError"
        ELSE IF confidence >= ContradictedThreshold THEN "inaccurate"
        ELSE "false"
    ELSE IF verification_status = "partial" THEN "inaccurate"
    ELSE IF verification_status = "unverifiable" THEN "false"
    ELSE "false"

VerdictInit ==
    \E s \in StatusStrings, c \in (0..MaxConfidence) \cup {NonNumeric} :
        mv = [status |-> s, confidence |-> c, verdict |-> NotCalled]

VerdictIdle == mv = [status |-> "verified", confidence |-> 0, verdict |-> NotCalled]

\* one call of _map_to_verdict(status, confidence)
MapToVerdictCall ==
    /\ mv.verdict = NotCalled
    /\ mv' = [mv EXCEPT !.verdict = MapToVerdict(mv.status, mv.confidence)]
    /\ UNCHANGED <<clock, report, searchVars, reporterVars, verifierVars, appVars>>

(***************************************************************************)
(* claim_verifier.py: EnhancedClaimVerifier.generate_search_queries        *)
(***************************************************************************)
MaxQueries == 2
MaxContextWords == 5
MinWordLen == 4

ClaimTypes == {"statistic", "date", "financial", "technical_spec"}

Claim(text, context, claim_type, page_number) ==
    [text |-> text, context |-> context, claim_type |-> claim_type,
     page_number |-> page_number]

\* the list returned whole, without [:2]
GenerateSearchQueries_NoCap(claim) ==
    LET with_context ==
            IF SelectSeq(claim.context, LAMBDA w : Len(w) > MinWordLen) # <<>>
            THEN <<claim.text, claim.text \o " context">>
            ELSE <<claim.text>>
    IN  IF claim.claim_type \in {"financial", "statistic", "date"}
        THEN Append(with_context, claim.text \o " suffix")
        ELSE with_context

GenerateSearchQueries(claim) ==
    LET base == <<claim.text>>
        context_words ==
            Take(SelectSeq(claim.context, LAMBDA w : Len(w) > MinWordLen),
                 MaxContextWords)
        with_context ==
            IF context_words # <<>>
            THEN Append(base, claim.text \o " " \o JoinWords(context_words))
            ELSE base
        with_type ==
            IF claim.claim_type = "financial"
            THEN Append(with_context, claim.text \o " financial report SEC filing")
            ELSE IF claim.claim_type = "statistic"
            THEN Append(with_context, claim.text \o " statistics data report")
            ELSE IF claim.claim_type = "date"
            THEN Append(with_context, claim.text \o " date timeline event")
            ELSE with_context
    IN  Take(with_type, MaxQueries)

\* contexts as context.split() yields them: no word, short words only,
\* one long word, and more long words than MaxContextWords
Contexts ==
    { <<>>,
      <<"in", "2023">>,
      <<"the", "company", "said">>,
      <<"sales", "of", "the", "unit">>,
      <<"revenue">>,
      <<"in", "fiscal", "2023", "revenue", "increased", "sharply">>,
      <<"quarterly", "revenue", "growth", "exceeded", "analyst",
        "estimates", "again">> }

Texts == {"Revenue grew 40% in 2023", "", "1,200 employees"}

QueryClaims ==
    { Claim(t, c, ty, 1) : t \in Texts, c \in Contexts, ty \in ClaimTypes }

NoClaim == Claim(NotCalled, <<>>, "technical_spec", 0)

NoQueries == [called |-> FALSE, value |-> <<>>]

QueryInit ==
    /\ q_claim \in QueryClaims
    /\ queries = NoQueries

QueryIdle ==
    /\ q_claim = NoClaim
    /\ queries = NoQueries

\* one call of generate_search_queries(claim)
GenerateSearchQueriesCall ==
    /\ ~queries.called
    /\ queries' = [called |-> TRUE, value |-> GenerateSearchQueries(q_claim)]
    /\ UNCHANGED <<mv, clock, report, q_claim, search_out, llm, reporterVars, verifierVars, appVars>>

(***************************************************************************)
(* search_providers.py: TavilySearch.search                                *)
(***************************************************************************)
SearchMaxResults == 3       \* search_for_claim asks for max_results=3
EnoughResults == 5          \* search_for_claim stops querying at 5 results
MaxUniqueResults == 5       \* search_for_claim returns unique_results[:5]

Urls == 1..MaxUrls

\* What the provider does with one request: the request fails (a network
\* error, an HTTP error status, a body that is not JSON), or it answers
\* with a result list.  The provider is sent max_results and answers with
\* no more items than that.  The title of an item tells the items apart:
\* <<k, j>> is the j-th item of the answer to the k-th query.
UrlLists == UNION { [1..n -> Urls] : n \in 0..SearchMaxResults }

Reply(k, urls) ==
    [kind |-> "ok",
     results |-> [j \in 1..Len(urls) |-> [url |-> urls[j], title |-> <<k, j>>]]]

FailedReply == [kind |-> "error", results |-> <<>>]

Replies(k) == {FailedReply} \cup { Reply(k, urls) : urls \in UrlLists }

SearchResult(item) ==
    [title |-> item.title, url |-> item.url, source |-> "Tavily"]

\* search(query, max_results): both except clauses return []
TavilySearch(reply, max_results) ==
    IF reply.kind # "ok" THEN <<>>
    ELSE LET items == Take(reply.results, max_results)
         IN  [i \in 1..Len(items) |-> SearchResult(items[i])]

(***************************************************************************)
(* claim_verifier.py: EnhancedClaimVerifier.search_for_claim               *)
(***************************************************************************)
RECURSIVE QueryLoop_StopOnEmpty(_, _, _, _, _)
\* the loop left at the first query that brings nothing
QueryLoop_StopOnEmpty(qs, replies, i, all_results, used_queries) ==
    IF i > Len(qs)
    THEN [all_results |-> all_results, used_queries |-> used_queries, issued |-> <<>>]
    ELSE LET results == TavilySearch(replies[i], SearchMaxResults)
         IN  IF results # <<>>
             THEN LET all2 == all_results \o results
                      used2 == Append(used_queries, qs[i])
                  IN  IF Len(all2) >= EnoughResults
                      THEN [all_results |-> all2, used_queries |-> used2,
                            issued |-> <<i>>]
                      ELSE [QueryLoop_StopOnEmpty(qs, replies, i + 1, all2, used2)
                                EXCEPT !.issued = <<i>> \o @]
             ELSE [all_results |-> all_results, used_queries |-> used_queries,
                   issued |-> <<i>>]

RECURSIVE QueryLoop(_, _, _, _, _)
\* the for loop over the queries, from the i-th on; issued lists the
\* queries passed to self.search.search, by their place in qs
QueryLoop(qs, replies, i, all_results, used_queries) ==
    IF i > Len(qs)
    THEN [all_results |-> all_results, used_queries |-> used_queries, issued |-> <<>>]
    ELSE LET results == TavilySearch(replies[i], SearchMaxResults)
         IN  IF results # <<>>
             THEN LET all2 == all_results \o results
                      used2 == Append(used_queries, qs[i])
                  IN  IF Len(all2) >= EnoughResults
                      THEN [all_results |-> all2, used_queries |-> used2,
                            issued |-> <<i>>]
                      ELSE [QueryLoop(qs, replies, i + 1, all2, used2)
                                EXCEPT !.issued = <<i>> \o @]
             ELSE [QueryLoop(qs, replies, i + 1, all_results, used_queries)
                       EXCEPT !.issued = <<i>> \o @]

RECURSIVE DedupLoop(_, _, _)
\* "Deduplicate by URL": the loop over all_results with seen_urls
DedupLoop(all_results, seen_urls, unique_results) ==
    IF all_results = <<>> THEN unique_results
    ELSE LET result == Head(all_results)
         IN  IF result.url \notin seen_urls
             THEN DedupLoop(Tail(all_results), seen_urls \cup {result.url},
                            Append(unique_results, result))
             ELSE DedupLoop(Tail(all_results), seen_urls, unique_results)

RECURSIVE DedupLoop_Adjacent(_, _, _)
\* seen_urls holding the last url only: a repeat further back is kept
DedupLoop_Adjacent(all_results, seen_urls, unique_results) ==
    IF all_results = <<>> THEN unique_results
    ELSE LET result == Head(all_results)
         IN  IF result.url \notin seen_urls
             THEN DedupLoop_Adjacent(Tail(all_results), {result.url},
                                     Append(unique_results, result))
             ELSE DedupLoop_Adjacent(Tail(all_results), seen_urls, unique_results)

DeduplicateByUrl_Adjacent(all_results) == DedupLoop_Adjacent(all_results, {}, <<>>)

DeduplicateByUrl(all_results) == DedupLoop(all_results, {}, <<>>)

\* search_for_claim(claim), the provider answering the k-th query with replies[k]
SearchForClaim(claim, replies) ==
    LET acc == QueryLoop(GenerateSearchQueries(claim), replies, 1, <<>>, <<>>)
    IN  [all_results |-> acc.all_results,
         results |-> Take(DeduplicateByUrl(acc.all_results), MaxUniqueResults),
         used_queries |-> acc.used_queries,
         issued |-> acc.issued]

RECURSIVE ReplyListsFrom(_, _)
ReplyListsFrom(k, n) ==
    IF k > n THEN {<<>>}
    ELSE { <<r>> \o rest : r \in Replies(k), rest \in ReplyListsFrom(k + 1, n) }

\* one reply for each generated query
ReplyLists(claim) == ReplyListsFrom(1, Len(GenerateSearchQueries(claim)))

\* the claims searched for: one query (no long context word, no typed
\* suffix), a typed second query, a context second query
SearchClaims ==
    { Claim("1,200 employees", <<"in", "2023">>, "technical_spec", 1),
      Claim("Revenue grew 40% in 2023", <<>>, "financial", 2),
      Claim("Founded in 1998", <<"company", "history">>, "technical_spec", 3) }

NoSearch == [all_results |-> <<>>, results |-> <<>>, used_queries |-> <<>>,
             issued |-> <<>>, replies |-> <<>>, called |-> FALSE]

SearchInit ==
    /\ q_claim \in SearchClaims
    /\ queries = NoQueries
    /\ search_out = NoSearch

SearchIdle == search_out = NoSearch

\* one call of search_for_claim(claim)
SearchForClaimCall ==
    /\ ~search_out.called
    /\ \E replies \in ReplyLists(q_claim) :
          LET out == SearchForClaim(q_claim, replies)
          IN  search_out' = [all_results |-> out.all_results,
                             results |-> out.results,
                             used_queries |-> out.used_queries,
                             issued |-> out.issued,
                             replies |-> replies,
                             called |-> TRUE]
    /\ UNCHANGED <<mv, clock, report, q_claim, queries, llm, reporterVars, verifierVars, appVars>>

(***************************************************************************)
(* report_generator.py: FactCheckReporter                                  *)
(***************************************************************************)
HighPriorityThreshold == 70

\* the input file's entries: asdict(VerificationResult), reduced to the
\* fields the reporter's decisions read, the analysis and the fields that
\* identify a claim
DetailedResult(text, page, status, confidence, evidence, analysis) ==
    [claim_text |-> text, page_number |-> page, verification_status |-> status,
     confidence_score |-> confidence, evidence |-> evidence, analysis |-> analysis]

ClaimNames == <<"claim 1", "claim 2", "claim 3", "claim 4", "claim 5", "claim 6">>

\* confidences on both sides of the code's threshold 0.7 (0.65 is at the
\* specification's threshold and below the code's), and a value that is not
\* a number
ReportConfidences == {65, 70, NonNumeric}

EvidenceLists == {<<>>, <<[source |-> "example.org", snippet |-> "text"]>>}

DetailedResultsOfLen(n) ==
    [1..n -> [status : StatusStrings, confidence : ReportConfidences]]

GenerateRecommendation(verdict) ==
    IF verdict = "verified" THEN "No action needed. Claim is accurate."
    ELSE IF verdict = "inaccurate"
    THEN "UPDATE: Review and correct this claim. Provide current data or add context."
    ELSE IF verdict = "false"
    THEN "REMOVE or VERIFY: This claim lacks evidence. Remove or find supporting sources."
    ELSE "Review this claim manually."

ReportClaim(result, verdict) ==
    [claim_text |-> result.claim_text,
     page_number |-> result.page_number,
     verdict |-> verdict,
     confidence_score |-> result.confidence_score,
     explanation |-> result.analysis,
     sources_count |-> Len(result.evidence),
     recommendation |-> GenerateRecommendation(verdict)]

RECURSIVE ProcessLoop(_, _)
\* the for loop of process_verification_results: appends one ReportClaim per
\* entry, and stops where _map_to_verdict raises
ProcessLoop(results, claims_so_far) ==
    IF results = <<>> THEN [report_claims |-> claims_so_far, raised |-> "none"]
    ELSE LET result == Head(results)
             verdict == MapToVerdict(result.verification_status,
                                     result.confidence_score)
         IN  IF verdict = "TypeError"
             THEN [report_claims |-> claims_so_far, raised |-> "TypeError"]
             ELSE ProcessLoop(Tail(results),
                              Append(claims_so_far, ReportClaim(result, verdict)))

\* every claim counted as an issue
CountVerdict_All(claims_list, verdict) ==
    IF verdict = "verified"
    THEN Cardinality({i \in 1..Len(claims_list) : claims_list[i].verdict = verdict})
    ELSE Len(claims_list)

CountVerdict(claims_list, verdict) ==
    Cardinality({i \in 1..Len(claims_list) : claims_list[i].verdict = verdict})

\* the bands' lower ends left out of them
AssessDocumentQuality_OpenBands(num, den) ==
    IF num > 90 * den THEN "EXCELLENT - Minimal corrections needed"
    ELSE IF num > 75 * den THEN "GOOD - Some corrections recommended"
    ELSE IF num > 50 * den THEN "FAIR - Multiple corrections required"
    ELSE "POOR - Significant revision needed"

\* _assess_document_quality(accuracy_rate), accuracy_rate = verified/total*100
\* given as the exact fraction num/den
AssessDocumentQuality(num, den) ==
    IF num >= 90 * den THEN "EXCELLENT - Minimal corrections needed"
    ELSE IF num >= 75 * den THEN "GOOD - Some corrections recommended"
    ELSE IF num >= 50 * den THEN "FAIR - Multiple corrections required"
    ELSE "POOR - Significant revision needed"

\* the flag set at the lower of the two thresholds the variants use
IsHighPriority_LowThreshold(claim) ==
    /\ claim.verdict \in {"inaccurate", "false"}
    /\ claim.confidence_score >= HighPriorityThreshold - 5

IsHighPriority(claim) ==
    /\ claim.verdict \in {"inaccurate", "false"}
    /\ claim.confidence_score >= HighPriorityThreshold

HighPriorityIssue(claim) ==
    [claim |-> claim.claim_text, verdict |-> claim.verdict,
     page |-> claim.page_number, confidence |-> claim.confidence_score]

NoSummary == [kind |-> "none"]

\* no output operation called yet
NoOutput == [op |-> "none", raised |-> "none"]

\* generate_executive_summary() on the given report_claims.  The comparison
\* `claim.confidence_score >= 0.7` is reached for a claim whose verdict is
\* inaccurate or false and raises TypeError when the score is not a number.
GenerateExecutiveSummary(claims_list, now) ==
    LET total == Len(claims_list)
        verified == CountVerdict(claims_list, "verified")
        inaccurate == CountVerdict(claims_list, "inaccurate")
        false == CountVerdict(claims_list, "false")
    IN  IF total = 0 THEN [kind |-> "error", error |-> "No claims to report"]
        ELSE IF \E i \in 1..total :
                    /\ claims_list[i].verdict \in {"inaccurate", "false"}
                    /\ ~IsNumber(claims_list[i].confidence_score)
        THEN [kind |-> "raised", error |-> "TypeError"]
        ELSE [kind |-> "summary",
              total_claims |-> total,
              verified |-> verified,
              inaccurate |-> inaccurate,
              false |-> false,
              document_quality |-> AssessDocumentQuality(verified * 100, total),
              high_priority_issues |->
                  LET picked == SelectSeq(claims_list, IsHighPriority)
                  IN  [i \in 1..Len(picked) |-> HighPriorityIssue(picked[i])],
              issues_requiring_action |-> inaccurate + false,
              timestamp |-> now]

\* FactCheckReporter(path): the file's detailed_results, no report claims
ReporterInit ==
    /\ \E n \in 0..MaxResults : \E f \in DetailedResultsOfLen(n) :
        \E ev \in EvidenceLists :
          detailed_results =
            [i \in 1..n |-> DetailedResult(ClaimNames[i], i, f[i].status,
                                           f[i].confidence, ev, "analysis")]
    /\ report_claims = <<>>
    /\ summary = NoSummary
    /\ prev_summary = NoSummary
    /\ output = NoOutput
    /\ reporter_calls = 0

ReporterIdle ==
    /\ detailed_results = <<>>
    /\ report_claims = <<>>
    /\ summary = NoSummary
    /\ prev_summary = NoSummary
    /\ output = NoOutput
    /\ reporter_calls = 0

\* one call of process_verification_results()
ProcessVerificationResults ==
    /\ reporter_calls < MaxProcessCalls
    /\ report_claims' = ProcessLoop(detailed_results, report_claims).report_claims
    /\ reporter_calls' = reporter_calls + 1
    /\ UNCHANGED <<mv, clock, report, searchVars, detailed_results, summary, prev_summary, output,
                   verifierVars, appVars>>

\* the summary made and the report claims consumed
GenerateExecutiveSummaryCall_Consuming ==
    /\ summary' = GenerateExecutiveSummary(report_claims, clock)
    /\ prev_summary' = summary
    /\ output' = output
    /\ report_claims' = <<>>
    /\ UNCHANGED <<mv, clock, report, searchVars, detailed_results, reporter_calls,
                   verifierVars, appVars>>

\* one call of generate_executive_summary()
GenerateExecutiveSummaryCall ==
    /\ summary' = GenerateExecutiveSummary(report_claims, clock)
    /\ prev_summary' = summary
    /\ output' = output
    /\ UNCHANGED <<mv, clock, report, searchVars, detailed_results, report_claims, reporter_calls,
                   verifierVars, appVars>>

OutputOperations ==
    {"generate_text_report", "generate_json_report", "generate_html_report",
     "print_summary"}

\* How an output operation ends on the given report_claims.  Each begins
\* with summary = self.generate_executive_summary(), whose TypeError leaves
\* the operation, and reads summary['timestamp'] (text, json, html) or
\* summary['document_quality'] (print_summary), which the dict
\* {'error': ...} does not have.  The text report formats every claim's
\* confidence_score with :.2f and the html report computes
\* int(claim.confidence_score * 100); both raise on a score that is not a
\* number.  Writing the file is taken to succeed.
ReportOutput(op, claims_list, now) ==
    LET made == GenerateExecutiveSummary(claims_list, now)
    IN  IF made.kind = "raised" THEN [op |-> op, raised |-> made.error]
        ELSE IF made.kind = "error" THEN [op |-> op, raised |-> "KeyError"]
        ELSE IF /\ op \in {"generate_text_report", "generate_html_report"}
                /\ \E i \in 1..Len(claims_list) :
                      ~IsNumber(claims_list[i].confidence_score)
        THEN [op |-> op, raised |-> "ValueError"]
        ELSE [op |-> op, raised |-> "none"]

\* one call of an output operation
ReportOutputCall ==
    /\ \E op \in OutputOperations : output' = ReportOutput(op, report_claims, clock)
    /\ UNCHANGED <<mv, clock, report, searchVars, detailed_results, report_claims,
                   summary, prev_summary, reporter_calls, verifierVars, appVars>>

\* a reporter whose process_verification_results() has run once
SummaryInit ==
    /\ \E n \in 0..MaxResults : \E f \in DetailedResultsOfLen(n) :
        \E ev \in EvidenceLists :
          detailed_results =
            [i \in 1..n |-> DetailedResult(ClaimNames[i], i, f[i].status,
                                           f[i].confidence, ev, "analysis")]
    /\ report_claims = ProcessLoop(detailed_results, <<>>).report_claims
    /\ summary = NoSummary
    /\ prev_summary = NoSummary
    /\ output = NoOutput
    /\ reporter_calls = 1

MaxQualityClaims == 10

\* a reporter whose process_verification_results() has run once on a file
\* of t results, the first v verified and the others unverifiable
QualityInit ==
    /\ \E t \in 1..MaxQualityClaims : \E v \in 0..t :
          detailed_results =
            [i \in 1..t |-> DetailedResult("claim", i,
                                IF i <= v THEN "verified" ELSE "unverifiable",
                                IF i <= v THEN 90 ELSE 0, <<>>, "analysis")]
    /\ report_claims = ProcessLoop(detailed_results, <<>>).report_claims
    /\ summary = NoSummary
    /\ prev_summary = NoSummary
    /\ output = NoOutput
    /\ reporter_calls = 1

\* a second passes
Tick ==
    /\ clock < MaxClock
    /\ clock' = clock + 1
    /\ UNCHANGED <<mv, report, searchVars, reporterVars, verifierVars, appVars>>

(***************************************************************************)
(* claim_verifier.py: EnhancedClaimVerifier.verify_with_llm, verify_claim  *)
(***************************************************************************)
None == 0 - 1               \* max_claims=None
NullStatus == "<null>"      \* a verification_status that is not a string
IsString(s) == s # NullStatus

ResultKeys == {"verification_status", "confidence_score", "evidence", "analysis"}

\* the dict verify_with_llm returns: the keys it has and their values
LLMResult(keys, status, confidence, evidence, analysis) ==
    [keys |-> keys, verification_status |-> status, confidence_score |-> confidence,
     evidence |-> evidence, analysis |-> analysis]

Unverifiable(analysis) == LLMResult(ResultKeys, "unverifiable", 0, <<>>, analysis)

Evidence == <<[source |-> "example.org", snippet |-> "text"]>>

\* JSON objects the model may answer with: the statuses and scores asked
\* for (0.6 and 0.59 stand on both sides of generate_report's flag), a
\* status outside the four with a score above 1.0, a status that is not a
\* string, a score that is not a number, an object without a score
LLMObjects ==
    { LLMResult(ResultKeys, "verified", 90, Evidence, "analysis"),
      LLMResult(ResultKeys, "contradicted", 65, Evidence, "analysis"),
      LLMResult(ResultKeys, "contradicted", 59, Evidence, "analysis"),
      LLMResult(ResultKeys, "partial", 60, Evidence, "analysis"),
      LLMResult(ResultKeys, "VERIFIED", 150, Evidence, "analysis"),
      LLMResult(ResultKeys, NullStatus, 50, Evidence, "analysis"),
      LLMResult(ResultKeys, "verified", NonNumeric, Evidence, "analysis"),
      LLMResult(ResultKeys \ {"confidence_score"}, "verified", 0, Evidence, "analysis") }

\* what self.llm.invoke(prompt) does: raises, answers with text in which
\* the pattern \{.*\} finds nothing, with text whose match json.loads
\* rejects, or with text whose match parses to an object
\* text is response.content (for an object, the text it is parsed from),
\* error is str(e) of the exception invoke or json.loads raises
LLMResponses ==
    { [kind |-> "raise", object |-> Unverifiable(""), text |-> "",
       error |-> "connection refused"],
      [kind |-> "no_json", object |-> Unverifiable(""),
       text |-> "I cannot verify this claim.", error |-> ""],
      [kind |-> "bad_json", object |-> Unverifiable(""),
       text |-> "{verification_status: verified}",
       error |-> "Expecting property name enclosed in double quotes: line 1 column 2 (char 1)"] }
    \cup { [kind |-> "object", object |-> o, text |-> "<json text>", error |-> ""] :
              o \in LLMObjects }

\* format_results_for_llm(results)
FormatResultsForLLM(results) ==
    IF results = <<>>
    THEN [text |-> "No search results found.", items |-> <<>>]
    ELSE [text |-> "",
          items |-> [i \in 1..Len(results) |->
                        [number |-> i, title |-> results[i].title,
                         source |-> results[i].url]]]

\* the prompts verify_with_llm(claim, search_results) passes to
\* self.llm.invoke: one, whatever search_results is
InvokedPrompts(claim, search_results) ==
    <<[claim_text |-> claim.text, claim_type |-> claim.claim_type,
       claim_context |-> claim.context,
       search_context |-> FormatResultsForLLM(search_results)]>>

\* json.loads outside the try block: its exception leaves the function
VerifyWithLLM_Uncaught(response) ==
    IF response.kind = "object" THEN response.object
    ELSE IF response.kind = "no_json" THEN Unverifiable(response.text)
    ELSE IF response.kind = "bad_json"
    THEN LLMResult({}, NullStatus, NonNumeric, <<>>, response.error)
    ELSE Unverifiable("Error during verification: " \o response.error)

\* what verify_with_llm(claim, search_results) returns, the model's
\* response given
VerifyWithLLM(response) ==
    IF response.kind = "object" THEN response.object
    ELSE IF response.kind = "no_json" THEN Unverifiable(response.text)
    ELSE Unverifiable("Error during verification: " \o response.error)

\* the search_results verify_with_llm is called with: up to two results
LLMSearchResults ==
    UNION { { [j \in 1..n |-> SearchResult([url |-> u[j], title |-> <<1, j>>])] :
                u \in [1..n -> Urls] } : n \in 0..2 }

NoResponse == [kind |-> "none", object |-> Unverifiable(""), text |-> "", error |-> ""]

NoLLM == [claim |-> NoClaim, search_results |-> <<>>, response |-> NoResponse,
          called |-> FALSE, prompts |-> <<>>, result |-> Unverifiable("")]

LLMInit ==
    \E claim \in SearchClaims, search_results \in LLMSearchResults,
       response \in LLMResponses :
        llm = [claim |-> claim, search_results |-> search_results,
               response |-> response, called |-> FALSE, prompts |-> <<>>,
               result |-> Unverifiable("")]

LLMIdle == llm = NoLLM

\* one call of verify_with_llm(claim, search_results)
VerifyWithLLMCall ==
    /\ ~llm.called
    /\ llm' = [llm EXCEPT !.called = TRUE,
                          !.prompts = InvokedPrompts(llm.claim, llm.search_results),
                          !.result = VerifyWithLLM(llm.response)]
    /\ UNCHANGED <<mv, clock, report, q_claim, queries, search_out, reporterVars,
                   verifierVars, appVars>>

VerificationResult(claim, llm_result, used_queries, provider_used) ==
    [claim_text |-> claim.text,
     claim_type |-> claim.claim_type,
     claim_context |-> claim.context,
     page_number |-> claim.page_number,
     verification_status |-> llm_result.verification_status,
     confidence_score |-> llm_result.confidence_score,
     evidence |-> llm_result.evidence,
     analysis |-> llm_result.analysis,
     search_queries_used |-> used_queries,
     search_provider_used |-> provider_used]

\* the model asked whatever the search found
VerifyFound_NoShortCircuit(claim, found, response) ==
    LET provider_used ==
            IF found.results # <<>> THEN found.results[1].source ELSE "None"
        llm_result == VerifyWithLLM(response)
        prompts == InvokedPrompts(claim, found.results)
    IN  IF llm_result.keys # ResultKeys
        THEN [raised |-> TRUE, message |-> "'confidence_score'",
              search_results |-> found.results, prompts |-> prompts]
        ELSE [raised |-> FALSE,
              result |-> VerificationResult(claim, llm_result, found.used_queries,
                                            provider_used),
              search_results |-> found.results, prompts |-> prompts]

VerifyClaim_NoShortCircuit(claim, replies, response) ==
    VerifyFound_NoShortCircuit(claim, SearchForClaim(claim, replies), response)

\* verify_claim from "Step 2" on, found what search_for_claim returned: the
\* result, or the KeyError that reading a key the model's object lacks raises
VerifyFound(claim, found, response) ==
    LET provider_used ==
            IF found.results # <<>> THEN found.results[1].source ELSE "None"
        llm_result ==
            IF found.results # <<>> THEN VerifyWithLLM(response)
            ELSE Unverifiable("No search results found to verify this claim.")
        prompts ==
            IF found.results # <<>> THEN InvokedPrompts(claim, found.results)
            ELSE <<>>
    IN  IF llm_result.keys # ResultKeys
        THEN [raised |-> TRUE, message |-> "'confidence_score'",
              search_results |-> found.results, prompts |-> prompts]
        ELSE [raised |-> FALSE,
              result |-> VerificationResult(claim, llm_result, found.used_queries,
                                            provider_used),
              search_results |-> found.results, prompts |-> prompts]

\* verify_claim(claim)
VerifyClaim(claim, replies, response) ==
    VerifyFound(claim, SearchForClaim(claim, replies), response)

(***************************************************************************)
(* claim_verifier.py: EnhancedClaimVerifier.verify_all_claims              *)
(***************************************************************************)
\* the result the except clause builds
ErrorResult(claim, message) ==
    VerificationResult(claim, Unverifiable("Error: " \o message), <<>>, "None")

\* One pass of the loop body for one claim: what it appends to
\* verification_results and whether the except clause ran.  The try block
\* appends the result and then prints it: result.verification_status.upper()
\* raises AttributeError for a status that is not a string, and the format
\* {result.confidence_score:.2f} raises ValueError for a score that is not a
\* number; the except clause then appends its own result.
TryBlock(claim, v) ==
    LET searched == [search_results |-> v.search_results, prompts |-> v.prompts]
    IN  IF v.raised
        THEN [appended |-> <<ErrorResult(claim, v.message)>>,
              raised |-> TRUE, message |-> v.message, searched |-> searched]
        ELSE IF ~IsString(v.result.verification_status)
        THEN [appended |-> <<v.result,
                             ErrorResult(claim, "'NoneType' object has no attribute 'upper'")>>,
              raised |-> TRUE,
              message |-> "'NoneType' object has no attribute 'upper'",
              searched |-> searched]
        ELSE IF ~IsNumber(v.result.confidence_score)
        THEN [appended |-> <<v.result,
                             ErrorResult(claim, "Unknown format code 'f' for object of type 'str'")>>,
              raised |-> TRUE,
              message |-> "Unknown format code 'f' for object of type 'str'",
              searched |-> searched]
        ELSE [appended |-> <<v.result>>, raised |-> FALSE, message |-> "",
              searched |-> searched]

TryVerify(claim, replies, response) ==
    TryBlock(claim, VerifyClaim(claim, replies, response))

\* the claims file: the third claim is typed and has two queries, the
\* others have one
ClaimNamed(i) ==
    Claim(ClaimNames[i], <<"in", "2023">>,
          IF i = 3 THEN "financial" ELSE "technical_spec", i)

\* the provider's answers while a batch runs: a failed request, no result,
\* one result
VerifierReplies(k) == {FailedReply, Reply(k, <<>>), Reply(k, <<1>>)}

RECURSIVE VerifierReplyListsFrom(_, _)
VerifierReplyListsFrom(k, n) ==
    IF k > n THEN {<<>>}
    ELSE { <<r>> \o rest :
             r \in VerifierReplies(k), rest \in VerifierReplyListsFrom(k + 1, n) }

VerifierReplyLists(claim) ==
    VerifierReplyListsFrom(1, Len(GenerateSearchQueries(claim)))

\* claims[:max_claims] if max_claims else claims
ClaimsToVerify(claims_list, max_claims) ==
    IF max_claims # None /\ max_claims # 0
    THEN Take(claims_list, max_claims)
    ELSE claims_list

\* EnhancedClaimVerifier(): verification_results = []
VerifierInit ==
    /\ \E n \in 0..MaxClaims : claims = [i \in 1..n |-> ClaimNamed(i)]
    /\ verification_results = <<>>
    /\ pc = "idle"
    /\ claims_to_verify = <<>>
    /\ idx = 0
    /\ attempts = <<>>
    /\ calls = 0
    /\ delays = 0

VerifierIdle ==
    /\ claims = <<>>
    /\ verification_results = <<>>
    /\ pc = "idle"
    /\ claims_to_verify = <<>>
    /\ idx = 0
    /\ attempts = <<>>
    /\ calls = 0
    /\ delays = 0

\* verify_all_claims(claims, delay, max_claims) is entered
VerifyAllClaimsBegin(max_claims) ==
    /\ pc = "idle"
    /\ claims_to_verify' = ClaimsToVerify(claims, max_claims)
    /\ pc' = "running"
    /\ idx' = 0
    /\ calls' = calls + 1
    /\ delays' = 0
    /\ UNCHANGED <<claims, verification_results, attempts>>

\* what one pass of the loop writes, t what its try block did: the results
\* appended, and the log's entry (the claim's index in the batch, where its
\* first result stands, what the search found, the prompts sent, whether a
\* delay follows)
RecordAttempt(t, delay_after) ==
    /\ verification_results' = verification_results \o t.appended
    /\ attempts' =
         Append(attempts,
                [index |-> idx + 1, raised |-> t.raised, message |-> t.message,
                 first |-> Len(verification_results) + 1,
                 n_results |-> Len(t.searched.search_results),
                 llm_calls |-> Len(t.searched.prompts),
                 delay_after |-> delay_after])

\* the delay taken after every claim, the last one too
VerifyNextClaim_DelayAfterEach(replies, response) ==
    /\ pc = "running"
    /\ idx < Len(claims_to_verify)
    /\ RecordAttempt(TryVerify(claims_to_verify[idx + 1], replies, response), TRUE)
    /\ idx' = idx + 1
    /\ delays' = delays + 1
    /\ UNCHANGED <<claims, pc, claims_to_verify, calls>>

\* one pass of the loop: the try block on the next claim, then the delay
VerifyNextClaim(replies, response) ==
    /\ pc = "running"
    /\ idx < Len(claims_to_verify)
    /\ RecordAttempt(TryVerify(claims_to_verify[idx + 1], replies, response),
                     idx + 1 < Len(claims_to_verify))
    /\ idx' = idx + 1
    /\ delays' = IF idx + 1 < Len(claims_to_verify) THEN delays + 1 ELSE delays
    /\ UNCHANGED <<claims, pc, claims_to_verify, calls>>

\* the loop is over: return self.verification_results
VerifyAllClaimsReturn ==
    /\ pc = "running"
    /\ idx = Len(claims_to_verify)
    /\ pc' = "idle"
    /\ UNCHANGED <<claims, verification_results, claims_to_verify, idx, attempts,
                   calls, delays>>

VerifyAllClaimsCall ==
    /\ calls < MaxCalls
    /\ \E max_claims \in {None} \cup (0..MaxClaims) :
          /\ Len(verification_results) + Len(ClaimsToVerify(claims, max_claims))
                <= MaxVerifications
          /\ VerifyAllClaimsBegin(max_claims)
    /\ UNCHANGED <<mv, clock, report, searchVars, reporterVars, appVars>>

VerifyStep ==
    /\ pc = "running"
    /\ idx < Len(claims_to_verify)
    /\ \E replies \in VerifierReplyLists(claims_to_verify[idx + 1]),
          response \in LLMResponses :
            VerifyNextClaim(replies, response)
    /\ UNCHANGED <<mv, clock, report, searchVars, reporterVars, appVars>>

VerifyReturn ==
    /\ VerifyAllClaimsReturn
    /\ UNCHANGED <<mv, clock, report, searchVars, reporterVars, appVars>>

(***************************************************************************)
(* claim_verifier.py: generate_report, export_results                      *)
(***************************************************************************)
\* generate_report() raises TypeError where it compares a score that is
\* not a number: `status == 'verified' and score >= 0.8`, and
\* `status in ['contradicted', 'partial'] and score >= 0.6`
GenerateReportRaises(results) ==
    \E i \in 1..Len(results) :
        /\ results[i].verification_status \in {"verified", "contradicted", "partial"}
        /\ ~IsNumber(results[i].confidence_score)

\* asdict(result), as the reporter reads it back from the file
AsDetailedResult(result) ==
    DetailedResult(result.claim_text, result.page_number, result.verification_status,
                   result.confidence_score, result.evidence, result.analysis)

ExportedResults(results) == [i \in 1..Len(results) |-> AsDetailedResult(results[i])]

FlagThreshold == 60
HighConfidenceThreshold == 80

\* status_counts after the loop: the four statuses it starts with and every
\* other status a result carries: status_counts.get(status, 0) + 1
StatusCounts(results) ==
    [status \in KnownStatuses \cup {results[i].verification_status : i \in 1..Len(results)} |->
        Cardinality({i \in 1..Len(results) : results[i].verification_status = status})]

\* provider_usage after the loop
ProviderUsage(results) ==
    [provider \in {results[i].search_provider_used : i \in 1..Len(results)} |->
        Cardinality({i \in 1..Len(results) : results[i].search_provider_used = provider})]

\* every contradicted or partial result flagged, whatever its confidence
IsFlagged_AnyConfidence(result) ==
    result.verification_status \in {"contradicted", "partial"}

IsFlagged(result) ==
    /\ result.verification_status \in {"contradicted", "partial"}
    /\ result.confidence_score >= FlagThreshold

\* the analyses of the model are shorter than 200 characters: analysis[:200]
\* keeps them whole, and '...' is appended
FlaggedClaim(result) ==
    [claim |-> result.claim_text, status |-> result.verification_status,
     page |-> result.page_number, confidence |-> result.confidence_score,
     analysis |-> result.analysis \o "..."]

\* generate_report() on the given verification_results.  The two rates are
\* kept as exact fractions num/den of a percentage (the code rounds them to
\* two decimals).
GenerateReport(results) ==
    LET total_claims == Len(results)
        status_counts == StatusCounts(results)
    IN  IF total_claims = 0 THEN [kind |-> "error", error |-> "No claims verified yet"]
        ELSE IF GenerateReportRaises(results)
        THEN [kind |-> "raised", error |-> "TypeError"]
        ELSE [kind |-> "report",
              summary |->
                 [total_claims_checked |-> total_claims,
                  verified |-> status_counts["verified"],
                  contradicted |-> status_counts["contradicted"],
                  partial |-> status_counts["partial"],
                  unverifiable |-> status_counts["unverifiable"],
                  verification_rate |->
                      [num |-> status_counts["verified"] * 100, den |-> total_claims],
                  accuracy_score |->
                      [num |-> (2 * status_counts["verified"] + status_counts["partial"]) * 50,
                       den |-> total_claims],
                  high_confidence_verified |->
                      Cardinality({i \in 1..total_claims :
                          /\ results[i].verification_status = "verified"
                          /\ results[i].confidence_score >= HighConfidenceThreshold}),
                  provider_usage |-> ProviderUsage(results)],
              flagged_claims |->
                  LET picked == SelectSeq(results, IsFlagged)
                  IN  [i \in 1..Len(picked) |-> FlaggedClaim(picked[i])]]

\* one call of generate_report(), between calls of verify_all_claims
GenerateReportCall ==
    /\ pc = "idle"
    /\ report' = GenerateReport(verification_results)
    /\ UNCHANGED <<mv, clock, searchVars, reporterVars, verifierVars, appVars>>

(***************************************************************************)
(* app.py: process_pdf, main                                               *)
(*                                                                         *)
(* EnhancedClaimVerifier.__init__ calls self.search.print_status(), which  *)
(* search_providers.py does not define; it is taken here as a print that   *)
(* changes nothing.  The constructor raises when TAVILY_API_KEY is unset.  *)
(***************************************************************************)
NoSession ==
    [processed |-> FALSE,
     claims_data |-> [set |-> FALSE, total_claims |-> 0],
     verification_data |-> [set |-> FALSE, detailed_results |-> <<>>],
     report_data |-> NoSummary,
     reporter |-> [set |-> FALSE, report_claims |-> <<>>]]

\* the model's answers while the app runs
AppLLMResponses ==
    { r \in LLMResponses :
        \/ r.kind = "raise"
        \/ /\ r.kind = "object"
           /\ r.object.keys = ResultKeys
           /\ r.object.verification_status \in {"verified", "contradicted", NullStatus} }

AppReplies(k) == {FailedReply, Reply(k, <<1>>)}

RECURSIVE AppReplyListsFrom(_, _)
AppReplyListsFrom(k, n) ==
    IF k > n THEN {<<>>}
    ELSE { <<r>> \o rest : r \in AppReplies(k), rest \in AppReplyListsFrom(k + 1, n) }

\* init_session_state()
AppInit ==
    /\ app_pc = "upload"
    /\ app_total = 0
    /\ app_idx = 0
    /\ session = NoSession

AppIdle == AppInit

\* "Start Fact-Checking": process_pdf up to its verification loop.  The
\* extractor or the verifier's constructor raises (ok = FALSE), or n claims
\* are extracted; total is min(max_claims, len(claims_list)), max_claims the
\* slider's value, which is at least 1.
ProcessPdfBegin(ok, n, max_claims) ==
    /\ app_pc = "upload"
    /\ ~session.processed
    /\ IF ok
       THEN /\ app_pc' = "verify"
            /\ app_total' = Min(max_claims, n)
            /\ claims' = [i \in 1..n |-> ClaimNamed(i)]
       ELSE /\ app_pc' = "upload"
            /\ app_total' = 0
            /\ claims' = <<>>
    /\ app_idx' = 0
    /\ verification_results' = <<>>
    /\ pc' = "idle"
    /\ claims_to_verify' = <<>>
    /\ idx' = 0
    /\ attempts' = <<>>
    /\ calls' = 0
    /\ delays' = 0
    /\ UNCHANGED <<mv, clock, report, searchVars, reporterVars, session>>

\* for idx in range(total): verify_all_claims(claims_list, 1.5, idx + 1)
ProcessPdfLoopCall ==
    /\ app_pc = "verify"
    /\ app_idx < app_total
    /\ VerifyAllClaimsBegin(app_idx + 1)
    /\ app_pc' = "verifying"
    /\ UNCHANGED <<mv, clock, report, searchVars, reporterVars, app_total, app_idx, session>>

ProcessPdfVerifyStep ==
    /\ app_pc = "verifying"
    /\ idx < Len(claims_to_verify)
    /\ \E replies \in AppReplyListsFrom(1, Len(GenerateSearchQueries(claims_to_verify[idx + 1]))),
          response \in AppLLMResponses :
            VerifyNextClaim(replies, response)
    /\ UNCHANGED <<mv, clock, report, searchVars, reporterVars, appVars>>

ProcessPdfLoopReturn ==
    /\ app_pc = "verifying"
    /\ VerifyAllClaimsReturn
    /\ app_pc' = "verify"
    /\ app_idx' = app_idx + 1
    /\ UNCHANGED <<mv, clock, report, searchVars, reporterVars, app_total, session>>

\* process_pdf returns: its verifier and its reporter's working state are
\* dropped and the temporary directory with both files is removed
ProcessPdfLocalsDropped ==
    /\ claims' = <<>>
    /\ verification_results' = <<>>
    /\ pc' = "idle"
    /\ claims_to_verify' = <<>>
    /\ idx' = 0
    /\ attempts' = <<>>
    /\ calls' = 0
    /\ delays' = 0
    /\ detailed_results' = <<>>
    /\ report_claims' = <<>>
    /\ summary' = NoSummary
    /\ prev_summary' = NoSummary
    /\ output' = NoOutput
    /\ app_total' = 0
    /\ app_idx' = 0

\* verifier.export_results(verification_file); an exception ends process_pdf
ProcessPdfExport ==
    /\ app_pc = "verify"
    /\ app_idx = app_total
    /\ IF GenerateReportRaises(verification_results)
       THEN /\ app_pc' = "upload"
            /\ ProcessPdfLocalsDropped
       ELSE /\ app_pc' = "report"
            /\ detailed_results' = ExportedResults(verification_results)
            /\ UNCHANGED <<report_claims, summary, prev_summary, output, verifierVars,
                           app_total, app_idx>>
    /\ UNCHANGED <<mv, clock, report, searchVars, reporter_calls, session>>

\* FactCheckReporter(verification_file), process_verification_results(),
\* generate_executive_summary(), the return, and main storing what
\* process_pdf returned when report_data is truthy
ProcessPdfReport ==
    /\ app_pc = "report"
    /\ LET processed == ProcessLoop(detailed_results, <<>>)
           report_data == GenerateExecutiveSummary(processed.report_claims, clock)
       IN  IF processed.raised # "none" \/ report_data.kind = "raised"
           THEN /\ app_pc' = "upload"
                /\ UNCHANGED session
           ELSE /\ app_pc' = "results"
                /\ session' =
                     [processed |-> TRUE,
                      claims_data |-> [set |-> TRUE, total_claims |-> Len(claims)],
                      verification_data |->
                          [set |-> TRUE, detailed_results |-> detailed_results],
                      report_data |-> report_data,
                      reporter |-> [set |-> TRUE,
                                    report_claims |-> processed.report_claims]]
    /\ ProcessPdfLocalsDropped
    /\ UNCHANGED <<mv, clock, report, searchVars, reporter_calls>>

\* the reset leaving the summary in the session
ResetSession_KeepsReport ==
    /\ app_pc = "results"
    /\ session.processed
    /\ session' = [session EXCEPT !.processed = FALSE,
                                  !.claims_data = NoSession.claims_data,
                                  !.verification_data = NoSession.verification_data]
    /\ app_pc' = "upload"
    /\ UNCHANGED <<mv, clock, report, searchVars, reporterVars, verifierVars, app_total, app_idx>>

\* "Check Another Document"
ResetSession ==
    /\ app_pc = "results"
    /\ session.processed
    /\ session' = [session EXCEPT !.processed = FALSE,
                                  !.claims_data = NoSession.claims_data,
                                  !.verification_data = NoSession.verification_data,
                                  !.report_data = NoSession.report_data]
    /\ app_pc' = "upload"
    /\ UNCHANGED <<mv, clock, report, searchVars, reporterVars, verifierVars, app_total, app_idx>>

\* the model's answers in the runs of the session specification: the call
\* raises, a verified result, a verified result whose score is not a number
\* (export_results then raises and the run fails)
SessionLLMResponses ==
    { r \in LLMResponses :
        \/ r.kind = "raise"
        \/ /\ r.kind = "object"
           /\ r.object.keys = ResultKeys
           /\ r.object.verification_status = "verified" }

\* every query of the claim answered with one result
SessionReplies(claim) ==
    [k \in 1..Len(GenerateSearchQueries(claim)) |-> Reply(k, <<1>>)]

SessionVerifyStep ==
    /\ app_pc = "verifying"
    /\ idx < Len(claims_to_verify)
    /\ \E response \in SessionLLMResponses :
            VerifyNextClaim(SessionReplies(claims_to_verify[idx + 1]), response)
    /\ UNCHANGED <<mv, clock, report, searchVars, reporterVars, appVars>>

StartFactChecking ==
    \E ok \in BOOLEAN, n \in 0..MaxAppClaims, max_claims \in 1..MaxAppClaims :
        ProcessPdfBegin(ok, n, max_claims)

(***************************************************************************)
(* Specifications of the pure components.                                  *)
(***************************************************************************)
InitVerdict ==
    /\ VerdictInit /\ QueryIdle /\ SearchIdle /\ ReporterIdle /\ VerifierIdle /\ AppIdle
    /\ LLMIdle /\ clock = 0 /\ report = NoReport
NextVerdict == MapToVerdictCall
SpecVerdict == InitVerdict /\ [][NextVerdict]_vars

InitQuery ==
    /\ VerdictIdle /\ QueryInit /\ SearchIdle /\ ReporterIdle /\ VerifierIdle /\ AppIdle
    /\ LLMIdle /\ clock = 0 /\ report = NoReport
NextQuery == GenerateSearchQueriesCall
SpecQuery == InitQuery /\ [][NextQuery]_vars

InitSearch ==
    /\ VerdictIdle /\ SearchInit /\ ReporterIdle /\ VerifierIdle /\ AppIdle
    /\ LLMIdle /\ clock = 0 /\ report = NoReport
NextSearch == SearchForClaimCall
SpecSearch == InitSearch /\ [][NextSearch]_vars

InitReporter ==
    /\ VerdictIdle /\ QueryIdle /\ SearchIdle /\ ReporterInit /\ VerifierIdle /\ AppIdle
    /\ LLMIdle /\ clock = 0 /\ report = NoReport
NextReporter == ProcessVerificationResults \/ GenerateExecutiveSummaryCall
SpecReporter == InitReporter /\ [][NextReporter]_vars

InitSummary ==
    /\ VerdictIdle /\ QueryIdle /\ SearchIdle /\ SummaryInit /\ VerifierIdle /\ AppIdle
    /\ LLMIdle /\ clock = 0 /\ report = NoReport
NextSummary == GenerateExecutiveSummaryCall \/ Tick
SpecSummary == InitSummary /\ [][NextSummary]_vars

InitOutput ==
    /\ VerdictIdle /\ QueryIdle /\ SearchIdle /\ ReporterInit /\ VerifierIdle /\ AppIdle
    /\ LLMIdle /\ clock = 0 /\ report = NoReport
NextOutput == ProcessVerificationResults \/ ReportOutputCall
SpecOutput == InitOutput /\ [][NextOutput]_vars

InitQuality ==
    /\ VerdictIdle /\ QueryIdle /\ SearchIdle /\ QualityInit /\ VerifierIdle /\ AppIdle
    /\ LLMIdle /\ clock = 0 /\ report = NoReport
NextQuality == GenerateExecutiveSummaryCall
SpecQuality == InitQuality /\ [][NextQuality]_vars

InitLLM ==
    /\ VerdictIdle /\ QueryIdle /\ SearchIdle /\ ReporterIdle /\ VerifierIdle /\ AppIdle
    /\ LLMInit /\ clock = 0 /\ report = NoReport
NextLLM == VerifyWithLLMCall
SpecLLM == InitLLM /\ [][NextLLM]_vars

(***************************************************************************)
(* verify_with_llm on response texts.  A text is a sequence of tokens: an  *)
(* opening brace, a closing brace, "m" (the four members of a result:      *)
(* status verified, score 0.9, evidence, analysis) and "t" (prose).        *)
(***************************************************************************)
Tokens == {"{", "}", "m", "t"}
MaxTextLen == 5

ResponseTexts == UNION { [1..n -> Tokens] : n \in 0..MaxTextLen }

\* re.search(r'\{.*\}', text, re.DOTALL): the leftmost opening brace, and,
\* .* being greedy, the last closing brace after it
RegexSearch(text) ==
    LET opens == {i \in 1..Len(text) : text[i] = "{"}
    IN  IF opens = {} THEN [found |-> FALSE, group |-> <<>>]
        ELSE LET first == CHOOSE i \in opens : \A j \in opens : i <= j
                 closes == {j \in (first + 1)..Len(text) : text[j] = "}"}
             IN  IF closes = {} THEN [found |-> FALSE, group |-> <<>>]
                 ELSE LET last == CHOOSE j \in closes : \A k \in closes : k <= j
                      IN  [found |-> TRUE, group |-> SubSeq(text, first, last)]

\* json.loads(json_str): the dict of an object, or JSONDecodeError
JsonLoads(json_str) ==
    IF json_str = <<"{", "m", "}">>
    THEN [ok |-> TRUE, value |-> LLMResult(ResultKeys, "verified", 90, Evidence, "analysis"),
          error |-> ""]
    ELSE IF json_str = <<"{", "}">>
    THEN [ok |-> TRUE, value |-> LLMResult({}, NullStatus, NonNumeric, <<>>, ""),
          error |-> ""]
    ELSE IF /\ Len(json_str) >= 3
            /\ json_str[1] = "{"
            /\ json_str[2] = "}" \/ (json_str[2] = "m" /\ json_str[3] = "}")
    THEN [ok |-> FALSE, value |-> Unverifiable(""),
          error |-> "Extra data: line 1 column 3 (char 2)"]
    ELSE IF Len(json_str) >= 2 /\ json_str[1] = "{" /\ json_str[2] = "m"
    THEN [ok |-> FALSE, value |-> Unverifiable(""),
          error |-> "Expecting ',' delimiter: line 1 column 3 (char 2)"]
    ELSE IF json_str = <<>> \/ json_str[1] # "{"
    THEN [ok |-> FALSE, value |-> Unverifiable(""),
          error |-> "Expecting value: line 1 column 1 (char 0)"]
    ELSE [ok |-> FALSE, value |-> Unverifiable(""),
          error |-> "Expecting property name enclosed in double quotes: line 1 column 2 (char 1)"]

\* the try block of verify_with_llm on response.content = text
ResponseOf(text) ==
    LET json_match == RegexSearch(text)
    IN  IF ~json_match.found
        THEN [kind |-> "no_json", object |-> Unverifiable(""), text |-> text, error |-> ""]
        ELSE LET result == JsonLoads(json_match.group)
             IN  IF result.ok
                 THEN [kind |-> "object", object |-> result.value, text |-> text,
                       error |-> ""]
                 ELSE [kind |-> "bad_json", object |-> Unverifiable(""), text |-> text,
                       error |-> result.error]

InitParse ==
    /\ VerdictIdle /\ QueryIdle /\ SearchIdle /\ ReporterIdle /\ VerifierIdle /\ AppIdle
    /\ clock = 0 /\ report = NoReport
    /\ \E text \in ResponseTexts :
         llm = [claim |-> ClaimNamed(1), search_results |-> <<>>,
                response |-> ResponseOf(text), called |-> FALSE, prompts |-> <<>>,
                result |-> Unverifiable("")]
NextParse == VerifyWithLLMCall
SpecParse == InitParse /\ [][NextParse]_vars

(***************************************************************************)
(* The verifier: any calls of verify_all_claims on one verifier.           *)
(***************************************************************************)
Init ==
    /\ VerdictIdle /\ QueryIdle /\ SearchIdle /\ ReporterIdle /\ VerifierInit /\ AppIdle
    /\ LLMIdle /\ clock = 0 /\ report = NoReport
Next == VerifyAllClaimsCall \/ VerifyStep \/ VerifyReturn
Spec == Init /\ [][Next]_vars

(***************************************************************************)
(* The verifier and its report: verify_all_claims and generate_report.     *)
(***************************************************************************)
\* claim_verifier.py's main makes the report after its call of
\* verify_all_claims, and verifies no more
ReportNotMade == report = NoReport

InitReport == Init
NextReport ==
    \/ ReportNotMade /\ VerifyAllClaimsCall
    \/ ReportNotMade /\ VerifyStep
    \/ ReportNotMade /\ VerifyReturn
    \/ GenerateReportCall
SpecReport == InitReport /\ [][NextReport]_vars

(***************************************************************************)
(* The two programs run one after the other: claim_verifier.py verifies    *)
(* and exports, report_generator.py loads the file and processes it.       *)
(***************************************************************************)
\* claim_verifier.py's main exports last: once a file is written and
\* loaded, that verifier verifies no more
VerifierAtWork == detailed_results = <<>> /\ reporter_calls = 0

\* verifier.export_results(path), which raises where generate_report does,
\* then FactCheckReporter(path): the file's detailed_results, no report claims
ExportAndLoad ==
    /\ VerifierAtWork
    /\ pc = "idle"
    /\ calls >= 1
    /\ ~GenerateReportRaises(verification_results)
    /\ detailed_results' = ExportedResults(verification_results)
    /\ UNCHANGED <<mv, clock, report, searchVars, report_claims, summary, prev_summary, output,
                   reporter_calls, verifierVars, appVars>>

InitPipeline == Init
NextPipeline ==
    \/ VerifierAtWork /\ VerifyAllClaimsCall
    \/ VerifierAtWork /\ VerifyStep
    \/ VerifierAtWork /\ VerifyReturn
    \/ ExportAndLoad
    \/ ~VerifierAtWork /\ ProcessVerificationResults
SpecPipeline == InitPipeline /\ [][NextPipeline]_vars

(***************************************************************************)
(* The application: process_pdf and the session.                           *)
(***************************************************************************)
InitApp ==
    /\ VerdictIdle /\ QueryIdle /\ SearchIdle /\ ReporterIdle /\ VerifierIdle /\ AppInit
    /\ LLMIdle /\ clock = 0 /\ report = NoReport
NextApp ==
    \/ StartFactChecking
    \/ ProcessPdfLoopCall
    \/ ProcessPdfVerifyStep
    \/ ProcessPdfLoopReturn
    \/ ProcessPdfExport
    \/ ProcessPdfReport
    \/ ResetSession
SpecApp == InitApp /\ [][NextApp]_vars

(***************************************************************************)
(* The application's session over runs of process_pdf on searches that     *)
(* find a result.                                                          *)
(***************************************************************************)
InitSession == InitApp
NextSession ==
    \/ StartFactChecking
    \/ ProcessPdfLoopCall
    \/ SessionVerifyStep
    \/ ProcessPdfLoopReturn
    \/ ProcessPdfExport
    \/ ProcessPdfReport
    \/ ResetSession
SpecSession == InitSession /\ [][NextSession]_vars

(***************************************************************************)
(* Properties.                                                             *)
(***************************************************************************)
\* the first call of verify_all_claims on a new verifier has returned
FirstBatchReturned == pc = "idle" /\ calls = 1

BelongsTo(result, claim) ==
    /\ result.claim_text = claim.text
    /\ result.page_number = claim.page_number

\* C1: a batch of N claims on a verifier with no prior results returns
\* exactly N results, whichever claims raise while being verified; the
\* result at a failing claim's index is unverifiable with confidence 0.0,
\* no evidence and the exception message as analysis, and every claim after
\* it is gone through.
C1_FailureIsolation ==
    FirstBatchReturned =>
        /\ Len(verification_results) = Len(claims_to_verify)
        /\ Len(attempts) = Len(claims_to_verify)
        /\ \A i \in 1..Len(claims_to_verify) :
              (i <= Len(verification_results) /\ attempts[i].raised) =>
                  /\ BelongsTo(verification_results[i], claims_to_verify[i])
                  /\ verification_results[i].verification_status = "unverifiable"
                  /\ verification_results[i].confidence_score = 0
                  /\ verification_results[i].evidence = <<>>
                  /\ verification_results[i].analysis = "Error: " \o attempts[i].message

TimesVerified(i) == Cardinality({k \in 1..Len(attempts) : attempts[k].index = i})

NothingRaised == \A k \in 1..Len(attempts) : ~attempts[k].raised

\* C2: when process_pdf's verification loop is over, each of the total
\* claims selected has been verified exactly once, and (here: in a run
\* where no verification raised) verification_results has exactly total
\* entries, one per claim, and so has the exported detailed_results.
C2_OneResultPerClaim ==
    /\ (app_pc = "verify" /\ app_idx = app_total) =>
          /\ \A i \in 1..app_total : TimesVerified(i) = 1
          /\ NothingRaised =>
                /\ Len(verification_results) = app_total
                /\ \A i \in 1..app_total :
                      BelongsTo(verification_results[i], claims[i])
    /\ (app_pc = "report" /\ NothingRaised) => Len(detailed_results) = app_total

\* C3: during the first verify_all_claims run on a verifier, between claims,
\* the results list is the results of the first k claims in input order, k
\* the number of claims gone through: result i belongs to claim i.
C3_ResultsArePrefix ==
    (calls = 1 /\ pc = "running") =>
        /\ Len(verification_results) = idx
        /\ \A i \in 1..idx :
              i <= Len(verification_results) =>
                  BelongsTo(verification_results[i], claims_to_verify[i])

MapCalled == mv.verdict # NotCalled

\* C4 as stated: _map_to_verdict on 'contradicted' returns 'false' for every
\* confidence >= 0.65 and 'inaccurate' for every confidence < 0.65.
C4_ContradictedAsStated ==
    (MapCalled /\ mv.status = "contradicted" /\ IsNumber(mv.confidence)) =>
        /\ (mv.confidence >= 65 => mv.verdict = "false")
        /\ (mv.confidence < 65 => mv.verdict = "inaccurate")

\* C4 amended: _map_to_verdict on 'contradicted' returns 'inaccurate' for
\* every numeric confidence >= 0.7 and 'false' for every numeric confidence
\* < 0.7.
C4_ContradictedByConfidence ==
    (MapCalled /\ mv.status = "contradicted" /\ IsNumber(mv.confidence)) =>
        /\ (mv.confidence >= 70 => mv.verdict = "inaccurate")
        /\ (mv.confidence < 70 => mv.verdict = "false")

C4_Witness ==
    /\ MapCalled
    /\ mv.status = "contradicted"
    /\ mv.confidence = 80
    /\ mv.verdict = "inaccurate"

\* C5 as stated: _map_to_verdict on 'unverifiable' or on a status outside
\* the four returns 'false' for every confidence < 0.3 and 'inaccurate' for
\* every confidence >= 0.3.
C5_UnverifiableAsStated ==
    (MapCalled /\ mv.status \in {"unverifiable", "error"} /\ IsNumber(mv.confidence)) =>
        /\ (mv.confidence < 30 => mv.verdict = "false")
        /\ (mv.confidence >= 30 => mv.verdict = "inaccurate")

\* C5 amended: _map_to_verdict on 'unverifiable' or on a status outside the
\* four returns 'false' for every confidence, below 0.3 or not.
C5_UnverifiableAlwaysFalse ==
    (MapCalled /\ mv.status \in {"unverifiable", "error"}) => mv.verdict = "false"

C5_Witness ==
    /\ MapCalled
    /\ mv.status = "unverifiable"
    /\ mv.confidence >= 30
    /\ mv.verdict = "false"

\* C6: _map_to_verdict returns 'verified' for status 'verified' and
\* 'inaccurate' for status 'partial', whatever the confidence.
C6_VerifiedAndPartial ==
    MapCalled =>
        /\ (mv.status = "verified" => mv.verdict = "verified")
        /\ (mv.status = "partial" => mv.verdict = "inaccurate")

C6_Witness ==
    /\ MapCalled
    /\ mv.status = "partial"
    /\ mv.confidence = MaxConfidence
    /\ mv.verdict = "inaccurate"

\* C7: for every status string, one of the four or not, and every numeric
\* confidence, _map_to_verdict returns one of verified, inaccurate, false,
\* and the call leaves the reporter's state as it was.
C7_TotalAndPure ==
    /\ [](MapCalled /\ IsNumber(mv.confidence) => mv.verdict \in Verdicts)
    /\ [][mv' # mv => UNCHANGED reporterVars]_vars

C7_Witness ==
    /\ MapCalled
    /\ mv.status = "error"
    /\ mv.confidence = 50
    /\ mv.verdict \in Verdicts

\* C8: the executive summary of a non-empty report_claims list has
\* verified + inaccurate + false = total_claims and
\* issues_requiring_action = inaccurate + false.
C8_SummaryCountsAddUp ==
    summary.kind = "summary" =>
        /\ summary.verified + summary.inaccurate + summary.false = summary.total_claims
        /\ summary.issues_requiring_action = summary.inaccurate + summary.false
        /\ summary.total_claims > 0

C8_Witness ==
    /\ summary.kind = "summary"
    /\ summary.total_claims = Len(report_claims)
    /\ summary.verified > 0
    /\ summary.inaccurate > 0
    /\ summary.false > 0

NoRepeatedUrl(results) ==
    \A i, j \in 1..Len(results) : i # j => results[i].url # results[j].url

\* the entries of all_results whose url no earlier entry has, in order
FirstOccurrences(all_results) ==
    LET first == {i \in 1..Len(all_results) :
                     \A j \in 1..(i - 1) : all_results[j].url # all_results[i].url}
        Rank(i) == Cardinality({j \in first : j <= i})
    IN  [k \in 1..Cardinality(first) |->
            all_results[CHOOSE i \in first : Rank(i) = k]]

\* C9: what search_for_claim returns has no two entries with the same url,
\* is the first occurrence of each url of the accumulated results in
\* first-seen order, and has at most 5 entries.
C9_SearchDeduplication ==
    search_out.called =>
        /\ NoRepeatedUrl(search_out.results)
        /\ Len(search_out.results) <= 5
        /\ search_out.results = Take(FirstOccurrences(search_out.all_results), 5)

\* a url met in both queries' answers, with another url between the two
C9_Witness ==
    /\ search_out.called
    /\ Len(search_out.results) >= 2
    /\ \E i, j \in 1..Len(search_out.all_results) :
          /\ i + 1 < j
          /\ search_out.all_results[i].url = search_out.all_results[j].url
          /\ search_out.all_results[i + 1].url # search_out.all_results[i].url

\* six distinct urls accumulated, five returned
C9_WitnessCap ==
    /\ search_out.called
    /\ Len(search_out.all_results) = 6
    /\ NoRepeatedUrl(search_out.all_results)
    /\ Len(search_out.results) = 5

\* C10: generate_search_queries returns at least 1 and at most 2 queries,
\* the first one the claim text verbatim.
C10_QueryCap ==
    queries.called =>
        /\ Len(queries.value) >= 1
        /\ Len(queries.value) <= 2
        /\ queries.value[1] = q_claim.text

\* a typed claim with long context words: three candidates, two returned
C10_Witness ==
    /\ queries.called
    /\ q_claim.claim_type = "financial"
    /\ Len(SelectSeq(q_claim.context, LAMBDA w : Len(w) > 4)) > 5
    /\ Len(queries.value) = 2

\* the fixed suffix of a typed claim's query
TypeSuffix(claim_type) ==
    IF claim_type = "financial" THEN " financial report SEC filing"
    ELSE IF claim_type = "statistic" THEN " statistics data report"
    ELSE " date timeline event"

\* C11: for every claim of type financial, statistic or date, whatever its
\* context, generate_search_queries returns two queries and the second is
\* the claim text followed by the type's fixed suffix; for a claim of
\* another type a second query, when there is one, is the claim text
\* followed by the context words longer than 4 characters, 5 at most.
C11_TypedSecondQuery ==
    queries.called =>
        IF q_claim.claim_type \in {"financial", "statistic", "date"}
        THEN /\ Len(queries.value) = 2
             /\ queries.value[2] = q_claim.text \o TypeSuffix(q_claim.claim_type)
        ELSE Len(queries.value) = 2 =>
                queries.value[2] =
                    q_claim.text \o " " \o
                    JoinWords(Take(SelectSeq(q_claim.context, LAMBDA w : Len(w) > 4), 5))

NoResultsFallback(result) ==
    /\ result.verification_status = "unverifiable"
    /\ result.confidence_score = 0
    /\ result.evidence = <<>>
    /\ result.analysis = "No search results found to verify this claim."

\* verify_with_llm called with an empty result list sends nothing to the
\* model and returns the no-results fallback
VerifyWithLLMShortCircuits ==
    (llm.called /\ llm.search_results = <<>>) =>
        /\ llm.prompts = <<>>
        /\ NoResultsFallback(llm.result)

\* a claim gone through whose search found nothing: the model was not
\* invoked and the claim's result is the no-results fallback
VerifyClaimShortCircuits ==
    \A k \in 1..Len(attempts) :
        attempts[k].n_results = 0 =>
            /\ attempts[k].llm_calls = 0
            /\ ~attempts[k].raised
            /\ attempts[k].first <= Len(verification_results)
            /\ NoResultsFallback(verification_results[attempts[k].first])

\* C12: whenever the search step yields no result for a claim the language
\* model is not invoked for it and the result is unverifiable, confidence
\* 0.0, no evidence, analysis 'No search results found to verify this
\* claim.', in verify_with_llm called with an empty list and in verify_claim.
C12_EmptyEvidenceShortCircuit ==
    /\ VerifyWithLLMShortCircuits
    /\ VerifyClaimShortCircuits

\* the report claim made from the result standing at p, once the results were
\* exported and the loaded file processed
ReportedAt(p) ==
    IF reporter_calls >= 1 /\ p <= Len(detailed_results) /\ p <= Len(report_claims)
    THEN <<report_claims[p]>>
    ELSE <<>>

\* C13: a claim whose searches all returned nothing gets a VerificationResult
\* with status unverifiable and confidence 0.0, and once the results are
\* exported and processed by process_verification_results, the ReportClaim
\* made from that result has verdict 'false' and the recommendation of the
\* 'false' verdict; processing the exported file leaves no result without
\* its ReportClaim.
C13_EndToEnd ==
    /\ \A k \in 1..Len(attempts) :
          attempts[k].n_results = 0 =>
              LET p == attempts[k].first
              IN  /\ p <= Len(verification_results)
                  /\ BelongsTo(verification_results[p], claims[attempts[k].index])
                  /\ verification_results[p].verification_status = "unverifiable"
                  /\ verification_results[p].confidence_score = 0
                  /\ \A made \in {ReportedAt(p)[n] : n \in 1..Len(ReportedAt(p))} :
                        /\ made.claim_text = verification_results[p].claim_text
                        /\ made.page_number = verification_results[p].page_number
                        /\ made.verdict = "false"
                        /\ made.recommendation =
                               "REMOVE or VERIFY: This claim lacks evidence. Remove or find supporting sources."
    /\ reporter_calls >= 1 => Len(report_claims) >= Len(detailed_results)

C13_Witness ==
    /\ reporter_calls >= 1
    /\ \E k \in 1..Len(attempts) :
          /\ attempts[k].n_results = 0
          /\ ReportedAt(attempts[k].first) # <<>>
          /\ ReportedAt(attempts[k].first)[1].explanation =
                "No search results found to verify this claim."
          /\ ReportedAt(attempts[k].first)[1].verdict = "false"
          /\ ReportedAt(attempts[k].first)[1].confidence_score = 0

\* C14: generate_executive_summary on an empty report_claims list returns a
\* summary whose total_claims, verified, inaccurate, false and
\* issues_requiring_action are 0, whose high_priority_issues is empty and
\* whose document_quality begins 'UNKNOWN'.
C14_ZeroClaimsSummary ==
    (report_claims = <<>> /\ summary.kind # "none") =>
        /\ summary.kind = "summary"
        /\ summary.total_claims = 0
        /\ summary.verified = 0
        /\ summary.inaccurate = 0
        /\ summary.false = 0
        /\ summary.issues_requiring_action = 0
        /\ summary.high_priority_issues = <<>>
        /\ summary.document_quality \in
              {"UNKNOWN - No claims processed", "UNKNOWN - no claims processed"}

SameButTimestamp(first, second) ==
    /\ first.kind = second.kind
    /\ IF first.kind = "summary"
       THEN [first EXCEPT !.timestamp = 0] = [second EXCEPT !.timestamp = 0]
       ELSE first = second

\* C15 as stated: generate_executive_summary called twice on the same
\* report_claims returns the same output both times and leaves
\* report_claims as it was.
C15_SameOutputTwice ==
    /\ [](prev_summary.kind # "none" => summary = prev_summary)
    /\ [][report_claims' = report_claims]_vars

\* C15 amended: generate_executive_summary called twice on the same
\* report_claims returns outputs equal in every field but the timestamp,
\* which is the time of the call, and leaves report_claims as it was.
C15_SameOutputButTimestamp ==
    /\ [](prev_summary.kind # "none" => SameButTimestamp(prev_summary, summary))
    /\ [](summary.kind = "summary" => summary.timestamp <= clock)
    /\ [][report_claims' = report_claims]_vars

C15_Witness ==
    /\ prev_summary.kind = "summary"
    /\ summary.kind = "summary"
    /\ summary.timestamp > prev_summary.timestamp
    /\ Len(report_claims) = 2
    /\ summary.high_priority_issues # <<>>

\* C16: in a verify_all_claims run over n claims a delay follows each claim
\* gone through that another claim follows, one that raised included, and
\* none follows the last: idx delays while claims remain, n - 1 (0 for an
\* empty batch) when the run is over.
C16_RateLimiting ==
    LET n == Len(claims_to_verify)
        base == Len(attempts) - idx
    IN  calls >= 1 =>
            /\ base >= 0
            /\ delays = (IF idx < n THEN idx ELSE IF n > 0 THEN n - 1 ELSE 0)
            /\ (pc = "idle" => idx = n)
            /\ \A i \in 1..idx :
                  /\ attempts[base + i].index = i
                  /\ attempts[base + i].delay_after = (i < n)

C16_Witness ==
    /\ pc = "idle"
    /\ calls >= 1
    /\ Len(claims_to_verify) = 3
    /\ delays = 2
    /\ attempts[Len(attempts) - 1].raised
    /\ attempts[Len(attempts) - 1].delay_after
    /\ ~attempts[Len(attempts)].delay_after

\* C17: after any verify_all_claims run every entry of verification_results
\* has a status among verified, contradicted, partial, unverifiable and a
\* confidence that is a number from 0.0 to 1.0, whatever object the model
\* answered with.
C17_StatusAndConfidenceRange ==
    (pc = "idle" /\ calls >= 1) =>
        \A i \in 1..Len(verification_results) :
            /\ verification_results[i].verification_status \in KnownStatuses
            /\ IsNumber(verification_results[i].confidence_score)
            /\ verification_results[i].confidence_score <= 100

\* what the provider's k-th answer amounts to: its items, none for a
\* failed request
Brought(k) ==
    IF search_out.replies[k].kind = "ok"
    THEN [j \in 1..Len(search_out.replies[k].results) |->
             SearchResult(search_out.replies[k].results[j])]
    ELSE <<>>

\* C18: when every search for a claim fails or returns nothing,
\* search_for_claim returns no result, and queries_used is the queries it
\* issued, in order.
C18_AllSearchesFail ==
    (search_out.called /\ \A k \in 1..Len(search_out.replies) : Brought(k) = <<>>) =>
        /\ search_out.results = <<>>
        /\ Len(search_out.issued) = Len(search_out.replies)
        /\ search_out.used_queries =
              [k \in 1..Len(search_out.issued) |->
                  GenerateSearchQueries(q_claim)[search_out.issued[k]]]

\* C19: a query whose request fails brings an empty list; search_for_claim
\* still issues every generated query and returns what the other query
\* brought, deduplicated.
C19_PerQueryIsolation ==
    search_out.called =>
        \A k \in 1..Len(search_out.replies) :
            search_out.replies[k].kind = "error" =>
                /\ search_out.issued = [j \in 1..Len(search_out.replies) |-> j]
                /\ search_out.all_results =
                      (IF Len(search_out.replies) = 2 THEN Brought(3 - k) ELSE <<>>)
                /\ search_out.results =
                      Take(FirstOccurrences(search_out.all_results), 5)
                /\ (search_out.all_results # <<>> => search_out.results # <<>>)

C19_Witness ==
    /\ search_out.called
    /\ Len(search_out.replies) = 2
    /\ search_out.replies[1].kind = "error"
    /\ search_out.issued = <<1, 2>>
    /\ Len(search_out.results) = 3
    /\ search_out.used_queries = <<GenerateSearchQueries(q_claim)[2]>>

\* C20: when the model call raises, the response has no brace-delimited
\* object, or json.loads raises, verify_with_llm returns a dict with status
\* unverifiable, confidence 0.0, no evidence and, as analysis, the response
\* text (no object found) or 'Error during verification: ' and the
\* exception's message.
C20_NeverPropagates ==
    (llm.called /\ llm.response.kind \in {"raise", "no_json", "bad_json"}) =>
        /\ llm.result.keys = ResultKeys
        /\ llm.result.verification_status = "unverifiable"
        /\ llm.result.confidence_score = 0
        /\ llm.result.evidence = <<>>
        /\ llm.result.analysis =
              (IF llm.response.kind = "no_json" THEN llm.response.text
               ELSE "Error during verification: " \o llm.response.error)

C20_Witness ==
    /\ llm.called
    /\ llm.response.kind = "bad_json"
    /\ llm.search_results # <<>>
    /\ Len(llm.prompts) = 1
    /\ llm.result.verification_status = "unverifiable"
    /\ llm.result.analysis =
          "Error during verification: Expecting property name enclosed in double quotes: line 1 column 2 (char 1)"

\* C21: after one or more calls of process_verification_results on a
\* reporter whose file holds numeric confidences, report_claims holds exactly
\* one ReportClaim per entry of detailed_results, in the same order.
C21_OneReportClaimPerResult ==
    (/\ reporter_calls >= 1
     /\ \A i \in 1..Len(detailed_results) :
            IsNumber(detailed_results[i].confidence_score)) =>
        /\ Len(report_claims) = Len(detailed_results)
        /\ \A i \in 1..Len(detailed_results) :
              /\ report_claims[i].claim_text = detailed_results[i].claim_text
              /\ report_claims[i].page_number = detailed_results[i].page_number

\* a JSON object standing in the text from position i
ObjectAt(text, i) ==
    IF i + 1 <= Len(text) /\ JsonLoads(SubSeq(text, i, i + 1)).ok THEN <<SubSeq(text, i, i + 1)>>
    ELSE IF i + 2 <= Len(text) /\ JsonLoads(SubSeq(text, i, i + 2)).ok
    THEN <<SubSeq(text, i, i + 2)>>
    ELSE <<>>

\* the first brace-delimited JSON object of the text, if it has one
FirstObject(text) ==
    LET starts == {i \in 1..Len(text) : text[i] = "{" /\ ObjectAt(text, i) # <<>>}
    IN  IF starts = {} THEN <<>>
        ELSE ObjectAt(text, CHOOSE i \in starts : \A j \in starts : i <= j)

\* C22: whenever the response text contains a valid JSON object, whatever
\* text, braces or further objects stand before or after it,
\* verify_with_llm returns the first brace-delimited JSON object of the
\* text and not the unverifiable fallback.
C22_FirstObjectExtracted ==
    (llm.called /\ FirstObject(llm.response.text) # <<>>) =>
        llm.result = JsonLoads(FirstObject(llm.response.text)[1]).value

\* C23: a call of verify_all_claims with max_claims an integer m >= 0
\* verifies exactly the first min(m, len(claims)) claims, in input order;
\* with max_claims unset it verifies all claims.
C23_BatchSelection ==
    [][/\ \A m \in 0..MaxClaims :
            VerifyAllClaimsBegin(m) =>
                claims_to_verify' = Take(claims, Min(m, Len(claims)))
       /\ VerifyAllClaimsBegin(None) => claims_to_verify' = claims]_vars

RECURSIVE UrgentIssues(_, _)
\* the claims of the list, in order, whose verdict is inaccurate or false
\* and whose confidence is at least T, as issues
UrgentIssues(claims_list, T) ==
    IF claims_list = <<>> THEN <<>>
    ELSE LET c == Head(claims_list)
         IN  (IF c.verdict \in {"inaccurate", "false"} /\ c.confidence_score >= T
              THEN <<[claim |-> c.claim_text, verdict |-> c.verdict,
                      page |-> c.page_number, confidence |-> c.confidence_score]>>
              ELSE <<>>) \o UrgentIssues(Tail(claims_list), T)

\* C24: high_priority_issues of an executive summary is exactly the
\* sub-sequence, order kept, of the report claims it was made from whose
\* verdict is inaccurate or false and whose confidence is >= T, T being the
\* threshold of the 'contradicted' branch of _map_to_verdict as well; no
\* claim with verdict 'verified' is in it.  (report_claims only grows, so
\* the summary was made from its first total_claims entries.)
C24_HighPriorityIssues ==
    /\ HighPriorityThreshold = ContradictedThreshold
    /\ summary.kind = "summary" =>
          /\ summary.total_claims <= Len(report_claims)
          /\ summary.high_priority_issues =
                UrgentIssues(Take(report_claims, summary.total_claims),
                             ContradictedThreshold)
          /\ \A i \in 1..Len(summary.high_priority_issues) :
                summary.high_priority_issues[i].verdict \in {"inaccurate", "false"}

C24_Witness ==
    /\ summary.kind = "summary"
    /\ summary.total_claims = 3
    /\ Len(summary.high_priority_issues) = 1
    /\ summary.high_priority_issues[1].page = 2
    /\ report_claims[1].verdict = "verified"
    /\ report_claims[1].confidence_score = 70
    /\ report_claims[3].verdict = "false"
    /\ report_claims[3].confidence_score = 65

RECURSIVE FlaggedAmong(_)
\* the results of the list, in order, whose status is contradicted or
\* partial and whose confidence is at least 0.6
FlaggedAmong(results) ==
    IF results = <<>> THEN <<>>
    ELSE LET r == Head(results)
         IN  (IF /\ r.verification_status \in {"contradicted", "partial"}
                 /\ r.confidence_score >= FlagThreshold
              THEN <<r>> ELSE <<>>) \o FlaggedAmong(Tail(results))

\* the results a report was made from: the first total_claims_checked
\* entries of verification_results, which only grows
ReportedResults == Take(verification_results, report.summary.total_claims_checked)

\* C25: flagged_claims of generate_report is exactly the sub-sequence, order
\* kept, of the verification results whose status is contradicted or partial
\* and whose confidence is >= 0.6; a result with status verified or
\* unverifiable, or with confidence < 0.6, is never in it.
C25_FlaggedClaims ==
    report.kind = "report" =>
        LET expected == FlaggedAmong(ReportedResults)
            flagged == report.flagged_claims
        IN  /\ Len(flagged) = Len(expected)
            /\ \A i \in 1..Len(flagged) :
                  /\ flagged[i].claim = expected[i].claim_text
                  /\ flagged[i].page = expected[i].page_number
                  /\ flagged[i].status = expected[i].verification_status
                  /\ flagged[i].confidence = expected[i].confidence_score
                  /\ flagged[i].status \notin {"verified", "unverifiable"}
                  /\ flagged[i].confidence >= 60

C25_Witness ==
    /\ report.kind = "report"
    /\ report.summary.total_claims_checked = 3
    /\ Len(report.flagged_claims) = 1
    /\ report.flagged_claims[1].status = "partial"
    /\ report.flagged_claims[1].confidence = 60
    /\ \E i \in 1..3 :
          /\ verification_results[i].verification_status = "contradicted"
          /\ verification_results[i].confidence_score = 59

\* the band a document_quality string starts with
QualityBand(quality) ==
    IF quality = "EXCELLENT - Minimal corrections needed" THEN "EXCELLENT"
    ELSE IF quality = "GOOD - Some corrections recommended" THEN "GOOD"
    ELSE IF quality = "FAIR - Multiple corrections required" THEN "FAIR"
    ELSE IF quality = "POOR - Significant revision needed" THEN "POOR"
    ELSE "none"

\* C26: for every non-empty report with v verified claims out of t,
\* document_quality starts with 'EXCELLENT' iff 100*v >= 90*t, 'GOOD' iff
\* 75*t <= 100*v < 90*t, 'FAIR' iff 50*t <= 100*v < 75*t, and 'POOR'
\* otherwise; exactly one band applies.
C26_QualityBanding ==
    summary.kind = "summary" =>
        LET v == summary.verified
            t == summary.total_claims
            band == QualityBand(summary.document_quality)
        IN  /\ t > 0
            /\ band \in {"EXCELLENT", "GOOD", "FAIR", "POOR"}
            /\ band = "EXCELLENT" <=> 100 * v >= 90 * t
            /\ band = "GOOD" <=> (75 * t <= 100 * v /\ 100 * v < 90 * t)
            /\ band = "FAIR" <=> (50 * t <= 100 * v /\ 100 * v < 75 * t)
            /\ band = "POOR" <=> 100 * v < 50 * t

C26_Witness ==
    /\ summary.kind = "summary"
    /\ summary.total_claims = 10
    /\ summary.verified = 9
    /\ QualityBand(summary.document_quality) = "EXCELLENT"

\* the other bands are met as well, each at its lower end where one exists
C26_WitnessGood ==
    /\ summary.kind = "summary"
    /\ summary.total_claims = 4
    /\ summary.verified = 3
    /\ QualityBand(summary.document_quality) = "GOOD"

\* no step clears, removes or reorders results: the list before the step is
\* a prefix of the list after it
ResultsOnlyAppended ==
    [][/\ Len(verification_results') >= Len(verification_results)
       /\ SubSeq(verification_results', 1, Len(verification_results))
              = verification_results]_vars

\* C27: the results list is append-only across calls on one verifier, and
\* the list a call returns has as many results as the batches of all calls
\* so far had claims (attempts holds one entry per claim gone through, over
\* all calls).
C27_AppendOnlyAcrossCalls ==
    /\ ResultsOnlyAppended
    /\ []((calls >= 1 /\ pc = "idle") => Len(verification_results) = Len(attempts))

RECURSIVE SumOf(_, _)
\* the sum of the counts f holds for the keys of the set
SumOf(f, keys) ==
    IF keys = {} THEN 0
    ELSE LET k == CHOOSE x \in keys : TRUE
         IN  f[k] + SumOf(f, keys \ {k})

ProviderCountsAddUp ==
    report.kind = "report" =>
        SumOf(report.summary.provider_usage, DOMAIN report.summary.provider_usage)
            = report.summary.total_claims_checked

\* C28: in the report of a non-empty results list, verified + contradicted
\* + partial + unverifiable = total_claims_checked, and the counts of
\* provider_usage add up to total_claims_checked as well.
C28_ReportCountsAddUp ==
    /\ report.kind = "report" =>
          /\ report.summary.total_claims_checked > 0
          /\ report.summary.verified + report.summary.contradicted
                + report.summary.partial + report.summary.unverifiable
                = report.summary.total_claims_checked
    /\ ProviderCountsAddUp

\* C29: once process_verification_results has run, every output operation
\* of the reporter (generate_text_report, generate_json_report,
\* generate_html_report, print_summary) completes without raising for every
\* report_claims list, the empty list of a file with no detailed_results
\* included.
C29_OutputsNeverRaise ==
    (output.op \in OutputOperations /\ reporter_calls >= 1) => output.raised = "none"

\* the same, for the file with no detailed_results alone
EmptyFileOutputsNeverRaise ==
    (output.op \in OutputOperations /\ reporter_calls >= 1 /\ detailed_results = <<>>)
        => output.raised = "none"

\* C30: in every state processed implies that report_data and reporter are
\* set; a run of process_pdf that fails (it ends on the upload page) leaves
\* processed False and the stored data as they were; the reset sets
\* processed to False and clears claims_data, verification_data and
\* report_data.
C30_SessionState ==
    /\ [](session.processed =>
             /\ session.report_data.kind # "none"
             /\ session.reporter.set
             /\ session.claims_data.set
             /\ session.verification_data.set)
    /\ [](app_pc # "results" => ~session.processed)
    /\ [][(app_pc # "results" /\ app_pc' # "results") => UNCHANGED session]_vars
    /\ [][(app_pc = "results" /\ app_pc' # "results") =>
             /\ ~session'.processed
             /\ ~session'.claims_data.set
             /\ ~session'.verification_data.set
             /\ session'.report_data = NoSummary]_vars

\* after a run that reached its results and a reset: the upload page, with
\* nothing stored but the reporter of that run
C30_Witness ==
    /\ app_pc = "upload"
    /\ ~session.processed
    /\ session.reporter.set
    /\ session.report_data = NoSummary
    /\ ~session.claims_data.set
    /\ attempts = <<>>
    /\ claims = <<>>

====
